---- MODULE Spec2Model ----
(***************************************************************************)
(* Waitlist poller (qwertytam/mtlockyer): the persisted-state reconciler   *)
(* compare_waitlist_posns of src/src/main.py, its two storage backends     *)
(* (a local JSON file, an S3 object) and the poll pipelines that call it.  *)
(* src/mtlockyer/main.py holds an older, file-only copy of the same        *)
(* reconciler; its statements are the file-backend branch modelled here.   *)
(***************************************************************************)
EXTENDS Integers, Sequences, FiniteSets, TLC

(***************************************************************************)
(* Bounds of the model.                                                    *)
(***************************************************************************)
\* the wall clock takes the values 0..MaxClock ticks
MaxClock == 3
\* microseconds in one tick of the model's clock
TickMicros == 400000

(***************************************************************************)
(* Python values.  A JSON/Python value is an int, None, or a str.  A str   *)
(* is held either as its characters (kind "str") or, when it is laid out   *)
(* as a timestamp, as the fields the format's directives read (kind        *)
(* "stamp"): secs is the "%Y-%m-%d %H:%M:%S" part as a count of whole      *)
(* seconds, frac the digits after the point, zname and zoff the "%Z%z"     *)
(* part.                                                                   *)
(***************************************************************************)
NoStamp == [secs |-> 0, frac |-> <<>>, zname |-> "", zoff |-> ""]

PyInt(n) == [kind |-> "int", int |-> n, chars |-> <<>>, stamp |-> NoStamp]

PyStr(cs) == [kind |-> "str", int |-> 0, chars |-> cs, stamp |-> NoStamp]

PyStamp(st) == [kind |-> "stamp", int |-> 0, chars |-> <<>>, stamp |-> st]

PyNone == [kind |-> "none", int |-> 0, chars |-> <<>>, stamp |-> NoStamp]

\* the result of a call that may raise
Ok(v) == [ok |-> TRUE, val |-> v, err |-> ""]

Raise(e) == [ok |-> FALSE, val |-> PyNone, err |-> e]

(***************************************************************************)
(* int(x) of Python: an int is itself; a str is stripped of surrounding    *)
(* blanks, may carry one sign, and must then be decimal digits, single     *)
(* underscores allowed between digits; None is a TypeError.                *)
(***************************************************************************)
DigitValue ==
    ("0" :> 0) @@ ("1" :> 1) @@ ("2" :> 2) @@ ("3" :> 3) @@ ("4" :> 4) @@
    ("5" :> 5) @@ ("6" :> 6) @@ ("7" :> 7) @@ ("8" :> 8) @@ ("9" :> 9)

IsDigit(c) == c \in DOMAIN DigitValue

RECURSIVE LStrip(_)
LStrip(s) == IF s # <<>> /\ Head(s) = " " THEN LStrip(Tail(s)) ELSE s

RECURSIVE RStrip(_)
RStrip(s) ==
    IF s # <<>> /\ s[Len(s)] = " " THEN RStrip(SubSeq(s, 1, Len(s) - 1)) ELSE s

Strip(s) == RStrip(LStrip(s))

Unsigned(s) == IF s # <<>> /\ Head(s) \in {"+", "-"} THEN Tail(s) ELSE s

SignOf(s) == IF s # <<>> /\ Head(s) = "-" THEN -1 ELSE 1

DigitsOk(b) ==
    /\ b # <<>>
    /\ IsDigit(b[1])
    /\ IsDigit(b[Len(b)])
    /\ \A i \in 1..Len(b) :
          IsDigit(b[i]) \/ (b[i] = "_" /\ i > 1 /\ IsDigit(b[i - 1]))

RECURSIVE DigitsValue(_, _)
DigitsValue(b, acc) ==
    IF b = <<>> THEN acc
    ELSE DigitsValue(Tail(b),
                     IF Head(b) = "_" THEN acc ELSE acc * 10 + DigitValue[Head(b)])

IntOfStr(cs) ==
    LET s == Strip(cs)
        b == Unsigned(s)
    IN  IF DigitsOk(b) THEN Ok(PyInt(SignOf(s) * DigitsValue(b, 0)))
        ELSE Raise("ValueError")

\* int() with a fallback of 0 for what does not parse
int_or_zero(x) ==
    IF x.kind = "int" THEN Ok(x)
    ELSE IF x.kind = "str" /\ IntOfStr(x.chars).ok THEN IntOfStr(x.chars)
    ELSE Ok(PyInt(0))

int(x) ==
    CASE x.kind = "int" -> Ok(x)
      [] x.kind = "str" -> IntOfStr(x.chars)
      [] x.kind = "stamp" -> Raise("ValueError")
      [] OTHER -> Raise("TypeError")

(***************************************************************************)
(* Timestamps.  DateFormats.DEFAULT is "%Y-%m-%d %H:%M:%S.%f %Z%z".  A     *)
(* datetime is [secs, us, tzname, utcoffset]; strftime writes %f as six    *)
(* zero-padded digits; strptime reads one to six digits for %f (padding    *)
(* on the right), "UTC" or "GMT" for %Z and a signed hhmm for %z.          *)
(***************************************************************************)
FracWidth == 6

Pow10(n) == IF n = 0 THEN 1 ELSE IF n = 1 THEN 10 ELSE IF n = 2 THEN 100
            ELSE IF n = 3 THEN 1000 ELSE IF n = 4 THEN 10000
            ELSE IF n = 5 THEN 100000 ELSE 1000000

ZoneOffsets == ("+0000" :> 0) @@ ("+0100" :> 60)

OffsetText(m) == IF m = 60 THEN "+0100" ELSE "+0000"

strftime(d) ==
    [secs |-> d.secs,
     frac |-> [i \in 1..FracWidth |-> (d.us \div Pow10(FracWidth - i)) % 10],
     zname |-> d.tzname,
     zoff |-> OffsetText(d.utcoffset)]

RECURSIVE FracMicros(_, _)
FracMicros(f, i) ==
    IF i > Len(f) THEN 0 ELSE f[i] * Pow10(FracWidth - i) + FracMicros(f, i + 1)

NoDatetime == [secs |-> 0, us |-> 0, tzname |-> "", utcoffset |-> 0]

strptime(x) ==
    IF x.kind \notin {"str", "stamp"} THEN [ok |-> FALSE, dt |-> NoDatetime, err |-> "TypeError"]
    ELSE IF /\ x.kind = "stamp"
            /\ Len(x.stamp.frac) \in 1..FracWidth
            /\ x.stamp.zname \in {"UTC", "GMT"}
            /\ x.stamp.zoff \in DOMAIN ZoneOffsets
         THEN [ok |-> TRUE,
               dt |-> [secs |-> x.stamp.secs,
                       us |-> FracMicros(x.stamp.frac, 1),
                       tzname |-> x.stamp.zname,
                       utcoffset |-> ZoneOffsets[x.stamp.zoff]],
               err |-> ""]
         ELSE [ok |-> FALSE, dt |-> NoDatetime, err |-> "ValueError"]

\* dt.now().astimezone(tz.utc) when the wall clock reads tick t
utc_now(t) ==
    [secs |-> (t * TickMicros) \div Pow10(FracWidth),
     us |-> (t * TickMicros) % Pow10(FracWidth),
     tzname |-> "UTC",
     utcoffset |-> 0]

\* dt.now().astimezone(tz.utc).strftime(DateFormats.DEFAULT)
now_text(t) == PyStamp(strftime(utc_now(t)))

(***************************************************************************)
(* Records.  A Python dict is a function from its keys; a JSON document    *)
(* (the body of the file or of the S3 object) is the sequence of its       *)
(* members as written.                                                     *)
(***************************************************************************)
K_DATETIME == "waitlist_datetime"

K_UPDATED == "last_updated"

K_POSITION == "waitlist_position"

WlKeys == <<K_DATETIME, K_UPDATED, K_POSITION>>

EmptyDict == [k \in {} |-> PyNone]

\* a default record whose position is 0
DefaultWlDictZero ==
    (K_DATETIME :> PyStr(<<>>)) @@ (K_UPDATED :> PyStr(<<>>)) @@ (K_POSITION :> PyInt(0))

\* DataFileDictFormat.DEFAULT_WL_DICT as the module is imported
DefaultWlDictAtImport ==
    (K_DATETIME :> PyStr(<<>>)) @@ (K_UPDATED :> PyStr(<<>>)) @@ (K_POSITION :> PyInt(-1))

\* json.dump / json.dumps of a dict built with the keys of WlKeys, in that order
json_dump(d) == [i \in 1..Len(WlKeys) |-> [key |-> WlKeys[i], value |-> d[WlKeys[i]]]]

\* the last member of doc with key k (json.load keeps the last duplicate)
LastIndex(doc, k) ==
    CHOOSE i \in 1..Len(doc) :
        /\ doc[i].key = k
        /\ \A j \in (i + 1)..Len(doc) : doc[j].key # k

\* json.load / json.loads of a complete document
json_load(doc) ==
    [k \in {doc[i].key : i \in 1..Len(doc)} |-> doc[LastIndex(doc, k)].value]

HasApostrophe(v) == v.kind = "str" /\ \E i \in 1..Len(v.chars) : v.chars[i] = "'"

(***************************************************************************)
(* Storage.  The file is absent, or holds the members written so far and   *)
(* is complete once the closing of the document is written; open(.., "w")  *)
(* leaves it existing and empty.  The S3 object is absent or holds a whole *)
(* document.                                                               *)
(***************************************************************************)
AbsentFile == [exists |-> FALSE, complete |-> FALSE, doc |-> <<>>]

WholeFile(doc) == [exists |-> TRUE, complete |-> TRUE, doc |-> doc]

AbsentObject == [exists |-> FALSE, doc |-> <<>>]

WholeObject(doc) == [exists |-> TRUE, doc |-> doc]

Pollers == {"p1", "p2"}

VARIABLES
    clock,            \* the wall clock, in ticks
    file,             \* the file at file_path
    s3obj,            \* the object at s3_bucket_object
    DEFAULT_WL_DICT,  \* DataFileDictFormat.DEFAULT_WL_DICT.value, one dict per process
    config,           \* the backend arguments this deployment passes on every poll
    poller            \* per poller: position in the code, arguments, locals, history

vars == <<clock, file, s3obj, DEFAULT_WL_DICT, config, poller>>

\* the readings dt.now() can give when the clock stood at c
Ticks(c) == {t \in {c, c + 1} : t <= MaxClock}

(***************************************************************************)
(* Loading the stored record.                                              *)
(***************************************************************************)
\* __get_waitlist_from_file with the file present: open, json.load
load_file(f) == IF f.complete THEN Ok(json_load(f.doc)) ELSE Raise("JSONDecodeError")

\* a default that keeps the timestamps an earlier pass left in the shared dict
default_wl_dict_set_once(shared, dt_now) ==
    IF shared[K_DATETIME].kind = "stamp" THEN shared
    ELSE [shared EXCEPT ![K_DATETIME] = dt_now, ![K_UPDATED] = dt_now]

\* a default whose timestamps are a fixed instant instead of a clock reading
default_wl_dict_at_epoch(shared, dt_now) ==
    [shared EXCEPT ![K_DATETIME] = now_text(0), ![K_UPDATED] = now_text(0)]

\* the dict __get_waitlist_from_file returns on FileNotFoundError: the shared
\* default, its two timestamps overwritten with the reading dt_now
default_wl_dict(shared, dt_now) ==
    [shared EXCEPT ![K_DATETIME] = dt_now, ![K_UPDATED] = dt_now]

\* ObjectWrapper.get: the body of the object, or the client's NoSuchKey error
\* (a ClientError), logged and raised again
object_get(o) == IF o.exists THEN Ok(o.doc) ELSE Raise("NoSuchKey")

\* __get_waitlist_from_s3: ref is "ref" (a bucket and key) or "empty" (the
\* {"bucket": "", "object_key": ""} the callers substitute for None); listing
\* is the outcome of the two ObjectWrapper.list calls
get_waitlist_from_s3(ref, listing, o) ==
    IF ref = "empty" THEN Raise("ParamValidationError")
    ELSE IF listing # "listed" THEN Raise("ClientError")
    ELSE LET g == object_get(o)
         IN  IF ~g.ok THEN g
             ELSE IF \E i \in 1..Len(g.val) : HasApostrophe(g.val[i].value)
                  THEN Raise("JSONDecodeError")
                  ELSE Ok(json_load(g.val))

\* the file only when no bucket is given
uses_file_unless_bucket(file_path, s3_bucket_object) ==
    file_path # "none" /\ s3_bucket_object = "none"

\* "if file_path is not None" of get_saved_waitlist_data and save_waitlist_posn:
\* the file is the backend whenever a path is given, the bucket otherwise
uses_file(file_path, s3_bucket_object) == file_path # "none"

\* whether __get_waitlist_from_s3 comes to its call of ObjectWrapper.get
reaches_get(ref, listing) == ref # "empty" /\ listing = "listed"

\* wl_dict.get("waitlist_position", -1)
get_saved_waitlist_posn_or_default(wl_dict) ==
    IF K_POSITION \in DOMAIN wl_dict THEN Ok(wl_dict[K_POSITION]) ELSE Ok(PyInt(-1))

get_saved_waitlist_posn(wl_dict) ==
    IF K_POSITION \in DOMAIN wl_dict THEN Ok(wl_dict[K_POSITION]) ELSE Raise("KeyError")

\* reading the key of get_saved_waitlist_last_update instead
get_saved_waitlist_datetime_of_last_update(wl_dict) ==
    IF K_UPDATED \in DOMAIN wl_dict THEN strptime(wl_dict[K_UPDATED])
    ELSE [ok |-> FALSE, dt |-> NoDatetime, err |-> "KeyError"]

get_saved_waitlist_datetime(wl_dict) ==
    IF K_DATETIME \in DOMAIN wl_dict THEN strptime(wl_dict[K_DATETIME])
    ELSE [ok |-> FALSE, dt |-> NoDatetime, err |-> "KeyError"]

(***************************************************************************)
(* The comparison and the record to save.                                  *)
(***************************************************************************)
\* a wl_dict whose position is converted to an integer before it is stored
save_waitlist_posn_as_int(posn, wl_date, last_update) ==
    (K_DATETIME :> wl_date) @@ (K_UPDATED :> last_update) @@ (K_POSITION :> int(posn).val)

\* the wl_dict save_waitlist_posn builds from its arguments
save_waitlist_posn(posn, wl_date, last_update) ==
    (K_DATETIME :> wl_date) @@ (K_UPDATED :> last_update) @@ (K_POSITION :> posn)

\* a comparison that only notices a position that went up
positions_differ_upward(a, b) == a > b

\* a comparison that finds every pair of positions different
positions_differ_always(a, b) == TRUE

\* int(posn) != int(wl_posn)
positions_differ(a, b) == a # b

\* the changed path with the first two arguments in each other's place
changed_record_swapped(posn, dt_now) == save_waitlist_posn(dt_now, posn, dt_now)

\* the arguments of save_waitlist_posn on the changed path
changed_record(posn, dt_now) == save_waitlist_posn(posn, dt_now, dt_now)

\* the unchanged path refreshing both timestamps
unchanged_record_refreshed(wl_posn, existing_date, dt_now) ==
    save_waitlist_posn(wl_posn, dt_now, dt_now)

\* the arguments of save_waitlist_posn on the unchanged path
unchanged_record(wl_posn, existing_date, dt_now) ==
    save_waitlist_posn(wl_posn, existing_date, dt_now)

\* saving only "if changed", as the docstring of compare_waitlist_posns has it
saves_record_if_changed(has_changed) == has_changed

\* both branches of compare_waitlist_posns end in a call of save_waitlist_posn
saves_record(has_changed) == TRUE

NoOutcome ==
    [ok |-> FALSE, err |-> "", timed |-> FALSE, has_changed |-> FALSE,
     saves |-> FALSE, wl_dict |-> EmptyDict]

\* compare_waitlist_posns from the loaded wl_data up to its call of
\* save_waitlist_posn; t is the reading of dt.now(); timed says whether the
\* clock was read before the outcome
compare(posn, wl_data, t) ==
    LET sp == get_saved_waitlist_posn(wl_data)
        a == int(posn)
        b == int(sp.val)
        has_changed == positions_differ(a.val.int, b.val.int)
        dt_now == now_text(t)
        e == get_saved_waitlist_datetime(wl_data)
    IN  IF ~sp.ok THEN [NoOutcome EXCEPT !.err = sp.err]
        ELSE IF ~a.ok THEN [NoOutcome EXCEPT !.err = a.err]
        ELSE IF ~b.ok THEN [NoOutcome EXCEPT !.err = b.err]
        ELSE IF has_changed
             THEN [ok |-> TRUE, err |-> "", timed |-> TRUE, has_changed |-> TRUE,
                   saves |-> saves_record(TRUE),
                   wl_dict |-> changed_record(posn, dt_now)]
        ELSE IF ~e.ok THEN [NoOutcome EXCEPT !.err = e.err, !.timed = TRUE]
        ELSE [ok |-> TRUE, err |-> "", timed |-> TRUE, has_changed |-> FALSE,
              saves |-> saves_record(FALSE),
              wl_dict |-> unchanged_record(sp.val, PyStamp(strftime(e.dt)), dt_now)]

(***************************************************************************)
(* Inputs.                                                                 *)
(***************************************************************************)
\* observed positions handed to compare_waitlist_posns
PosnInputs ==
    {PyInt(-1), PyInt(5), PyInt(9), PyStr(<<"5">>), PyStr(<<" ", "9">>),
     PyStr(<<"a">>), PyNone}

\* what get_latest_waitlist_posn can return: the text of the page's <b> element
PageTexts == {PyStr(<<"5">>), PyStr(<<" ", "9">>), PyStr(<<"a">>)}

T0 == now_text(0)

ShortFracStamp == PyStamp([secs |-> 0, frac |-> <<4>>, zname |-> "UTC", zoff |-> "+0000"])

StoredDoc(posn, wl_date, last_update) ==
    json_dump(save_waitlist_posn(posn, wl_date, last_update))

Member(k, v) == [key |-> k, value |-> v]

\* documents found in the backend when the program first runs
InitialDocs ==
    {StoredDoc(PyInt(5), T0, T0),
     StoredDoc(PyStr(<<"9">>), T0, T0),
     StoredDoc(PyInt(5), ShortFracStamp, T0),
     StoredDoc(PyInt(5), PyStr(<<>>), T0),
     StoredDoc(PyStr(<<"a">>), T0, T0),
     <<Member(K_DATETIME, T0), Member(K_POSITION, PyInt(5))>>,
     <<Member(K_UPDATED, T0), Member(K_POSITION, PyInt(5))>>,
     <<Member(K_DATETIME, T0), Member(K_UPDATED, T0)>>,
     StoredDoc(PyInt(5), T0, T0) \o <<Member("note", PyStr(<<"a">>))>>,
     StoredDoc(PyInt(5), T0, T0) \o <<Member("note", PyStr(<<"'">>))>>}

(***************************************************************************)
(* A poller: one thread of control running a pipeline, or a caller of      *)
(* compare_waitlist_posns.  pc is its place in the code:                   *)
(*   idle                     nothing started                              *)
(*   login, navigate, extract the pipeline before the reconciler           *)
(*   load, compare, save, dump   inside compare_waitlist_posns             *)
(*   ret, exc                 compare_waitlist_posns returned / raised     *)
(*   killed                   the process was stopped during the write     *)
(*   failed                   the pipeline raised before the reconciler    *)
(*   quit, notify, respond    the pipeline after the reconciler            *)
(*   done, aborted            the pipeline returned / raised after it      *)
(* fault is the exception raised; reads and writes count the reads and the *)
(* writes of the backend begun since the poller started; pre_file and      *)
(* pre_s3 are the backends as compare_waitlist_posns was called;           *)
(* default_at is the timestamp of the default record, if one was made;     *)
(* listing is the outcome of the bucket listing; touched is the set of     *)
(* backends the pass has asked for the record or written it to; overlap    *)
(* says that another poller was inside compare_waitlist_posns during this  *)
(* pass; notified counts the notifications published; last_ok and lost are *)
(* history kept from the earlier passes of the poller.                     *)
(***************************************************************************)
IdlePoller ==
    [pc |-> "idle", entry |-> "none", logged_in |-> "none",
     posn |-> PyNone, file_path |-> "none", s3_bucket_object |-> "none",
     wl_ref |-> "none", wl_data |-> EmptyDict,
     has_changed |-> FALSE, wl_dict |-> EmptyDict,
     dt_now |-> PyNone, default_at |-> PyNone,
     fault |-> "", writes |-> 0, reads |-> 0,
     pre_file |-> AbsentFile, pre_s3 |-> AbsentObject,
     listing |-> "none", touched |-> {}, overlap |-> FALSE, notified |-> 0,
     last_ok |-> [seen |-> FALSE, value |-> 0],
     lost |-> [pending |-> FALSE, value |-> 0]]

\* the places in the code a poller can only be at after compare_waitlist_posns
\* returned
Returned == {"ret", "quit", "notify", "respond", "done", "aborted"}

LambdaEntries == {"main_lambda", "handler_lambda"}

\* the locals of a poller that starts anew; last_ok keeps the integer value of
\* the position observed by its latest pass that returned; lost keeps the
\* position of a change a Lambda run saved and then raised without publishing,
\* for as long as the runs that follow write nothing
Fresh(L) ==
    [IdlePoller EXCEPT
        !.last_ok = IF L.pc \in Returned
                    THEN [seen |-> TRUE, value |-> int(L.posn).val.int]
                    ELSE L.last_ok,
        !.lost = IF /\ L.pc = "aborted"
                    /\ L.entry \in LambdaEntries
                    /\ L.has_changed
                    /\ L.notified = 0
                 THEN [pending |-> TRUE, value |-> int(L.posn).val.int]
                 ELSE IF L.writes = 0 THEN L.lost
                 ELSE [pending |-> FALSE, value |-> 0]]

Resting == {"idle", "ret", "exc", "killed", "failed", "done", "aborted"}

InPass == {"load", "compare", "save", "dump"}

\* the dict bound to wl_data: the shared default itself after FileNotFoundError
WlData(p) ==
    IF poller[p].wl_ref = "default" THEN DEFAULT_WL_DICT ELSE poller[p].wl_data

\* the bucket reference the backend functions work with
S3Ref(s3_bucket_object) ==
    IF s3_bucket_object = "none" THEN "empty" ELSE s3_bucket_object

\* The backend the configured arguments select holds nothing or one of
\* InitialDocs; the other backend holds a record of its own.
Init ==
    /\ clock = 0
    /\ DEFAULT_WL_DICT = DefaultWlDictAtImport
    /\ config \in [file_path : {"none", "fp"}, s3_bucket_object : {"none", "ref"}]
    /\ IF config.file_path # "none"
       THEN /\ file \in {AbsentFile} \cup {WholeFile(d) : d \in InitialDocs}
            /\ s3obj = WholeObject(StoredDoc(PyInt(5), T0, T0))
       ELSE /\ s3obj \in {AbsentObject} \cup {WholeObject(d) : d \in InitialDocs}
            /\ file = WholeFile(StoredDoc(PyInt(5), T0, T0))
    /\ poller = [p \in Pollers |-> IdlePoller]

\* poller p enters compare_waitlist_posns with the locals rec; the passes
\* other pollers are inside of overlap with this one
Enter(p, rec) ==
    [q \in Pollers |->
        IF q = p
        THEN [rec EXCEPT !.pc = "load", !.pre_file = file, !.pre_s3 = s3obj,
                         !.overlap = \E o \in Pollers \ {p} : poller[o].pc \in InPass]
        ELSE IF poller[q].pc \in InPass THEN [poller[q] EXCEPT !.overlap = TRUE]
        ELSE poller[q]]

\* a caller invokes compare_waitlist_posns(posn, file_path, s3_bucket_object)
Call(p, x) ==
    /\ poller[p].pc \in Resting
    /\ poller' = Enter(p, [Fresh(poller[p]) EXCEPT
                              !.entry = "direct", !.posn = x,
                              !.file_path = config.file_path,
                              !.s3_bucket_object = config.s3_bucket_object])
    /\ UNCHANGED <<clock, file, s3obj, DEFAULT_WL_DICT, config>>

\* get_saved_waitlist_data
Load(p, listing) ==
    LET L == poller[p]
        Raised(e) == [L EXCEPT !.pc = "exc", !.fault = e]
    IN  /\ L.pc = "load"
        /\ IF uses_file(L.file_path, L.s3_bucket_object)
           THEN /\ listing = "listed"
                /\ IF ~file.exists
                   THEN \E t \in Ticks(clock) :
                           /\ clock' = t
                           /\ DEFAULT_WL_DICT' = default_wl_dict(DEFAULT_WL_DICT, now_text(t))
                           /\ poller' = [poller EXCEPT ![p] =
                                 [L EXCEPT !.pc = "compare", !.wl_ref = "default",
                                           !.default_at = now_text(t),
                                           !.touched = @ \cup {"file"},
                                           !.reads = @ + 1]]
                   ELSE LET r == load_file(file)
                        IN  /\ poller' = [poller EXCEPT ![p] =
                                  IF r.ok
                                  THEN [L EXCEPT !.pc = "compare", !.wl_ref = "own",
                                                 !.wl_data = r.val, !.reads = @ + 1,
                                                 !.touched = @ \cup {"file"}]
                                  ELSE [Raised(r.err) EXCEPT !.reads = @ + 1,
                                                             !.touched = @ \cup {"file"}]]
                            /\ UNCHANGED <<clock, DEFAULT_WL_DICT>>
           ELSE LET r == get_waitlist_from_s3(S3Ref(L.s3_bucket_object), listing, s3obj)
                IN  /\ poller' = [poller EXCEPT ![p] =
                          IF r.ok
                          THEN [L EXCEPT !.pc = "compare", !.wl_ref = "own",
                                         !.wl_data = r.val, !.reads = @ + 1,
                                         !.listing = listing,
                                         !.touched = @ \cup {"s3"}]
                          ELSE [Raised(r.err) EXCEPT
                                   !.listing = listing,
                                   !.touched = @ \cup {"s3"},
                                   !.reads = IF reaches_get(S3Ref(L.s3_bucket_object), listing)
                                             THEN @ + 1 ELSE @]]
                    /\ UNCHANGED <<clock, DEFAULT_WL_DICT>>
        /\ UNCHANGED <<file, s3obj, config>>

\* compare_waitlist_posns, lines 656-670, up to the call of save_waitlist_posn
Compare(p) ==
    LET L == poller[p]
    IN  /\ L.pc = "compare"
        /\ \E t \in Ticks(clock) :
              LET r == compare(L.posn, WlData(p), t)
              IN  /\ clock' = IF r.timed THEN t ELSE clock
                  /\ poller' = [poller EXCEPT ![p] =
                        IF ~r.ok THEN [L EXCEPT !.pc = "exc", !.fault = r.err]
                        ELSE [L EXCEPT !.pc = IF r.saves THEN "save" ELSE "ret",
                                       !.has_changed = r.has_changed,
                                       !.dt_now = now_text(t),
                                       !.wl_dict = r.wl_dict]]
        /\ UNCHANGED <<file, s3obj, DEFAULT_WL_DICT, config>>

\* save_waitlist_posn: open(file_path, "w") creates or truncates the file;
\* ObjectWrapper.put replaces the object in one request
Save(p) ==
    LET L == poller[p]
    IN  /\ L.pc = "save"
        /\ IF uses_file(L.file_path, L.s3_bucket_object)
           THEN /\ file' = [exists |-> TRUE, complete |-> FALSE, doc |-> <<>>]
                /\ poller' = [poller EXCEPT ![p] =
                      [L EXCEPT !.pc = "dump", !.writes = @ + 1,
                                !.touched = @ \cup {"file"}]]
                /\ UNCHANGED s3obj
           ELSE IF S3Ref(L.s3_bucket_object) = "empty"
           THEN /\ poller' = [poller EXCEPT ![p] =
                      [L EXCEPT !.pc = "exc", !.fault = "ParamValidationError",
                                !.touched = @ \cup {"s3"}]]
                /\ UNCHANGED <<file, s3obj>>
           ELSE /\ s3obj' = WholeObject(json_dump(L.wl_dict))
                /\ poller' = [poller EXCEPT ![p] =
                      [L EXCEPT !.pc = "ret", !.writes = @ + 1,
                                !.touched = @ \cup {"s3"}]]
                /\ UNCHANGED file
        /\ UNCHANGED <<clock, DEFAULT_WL_DICT, config>>

\* __save_waitlist_to_file: json.dump into the opened file, then close
Dump(p) ==
    LET L == poller[p]
    IN  /\ L.pc = "dump"
        /\ file' = WholeFile(json_dump(L.wl_dict))
        /\ poller' = [poller EXCEPT ![p] = [L EXCEPT !.pc = "ret"]]
        /\ UNCHANGED <<clock, s3obj, DEFAULT_WL_DICT, config>>

\* the process is stopped, or the write fails, between open(file_path, "w")
\* and the end of json.dump: the first k members reached the file
Kill(p, k) ==
    LET L == poller[p]
    IN  /\ L.pc = "dump"
        /\ k < Len(WlKeys)
        /\ file' = [exists |-> TRUE, complete |-> FALSE,
                    doc |-> SubSeq(json_dump(L.wl_dict), 1, k)]
        /\ poller' = [poller EXCEPT ![p] = [L EXCEPT !.pc = "killed"]]
        /\ UNCHANGED <<clock, s3obj, DEFAULT_WL_DICT, config>>

(***************************************************************************)
(* The poll pipelines before the reconciler: lambda_handler of             *)
(* src/src/main.py ("main_lambda"), lambda_handler of                      *)
(* src/src/lambda_handler.py ("handler_lambda") and main of src/script.py  *)
(* ("script").  The browser, the site and the page are the environment:    *)
(* each call into them has every outcome the library can give.             *)
(***************************************************************************)
Entries == {"main_lambda", "handler_lambda", "script"}

\* the entry point runs up to its call of login; the lambdas take the bucket
\* and key from the event ("" when the event lacks them), the script a path
StartRun(p, e) ==
    /\ poller[p].pc \in Resting
    /\ (e = "script") = (config.file_path # "none")
    /\ poller' = [poller EXCEPT ![p] =
          [Fresh(poller[p]) EXCEPT !.pc = "login", !.entry = e,
                             !.file_path = IF e = "script" THEN "fp" ELSE "none",
                             !.s3_bucket_object = IF e = "script" THEN "none"
                                                   ELSE S3Ref(config.s3_bucket_object)]]
    /\ UNCHANGED <<clock, file, s3obj, DEFAULT_WL_DICT, config>>

\* login: the waits on the form raise TimeoutException; _check_logged_in
\* turns its own timeout into the return value False.  No caller reads the
\* return value.
Login(p, outcome) ==
    LET L == poller[p]
    IN  /\ L.pc = "login"
        /\ poller' = [poller EXCEPT ![p] =
              IF outcome = "TimeoutException"
              THEN [L EXCEPT !.pc = "failed", !.fault = outcome]
              ELSE [L EXCEPT !.pc = "navigate", !.logged_in = outcome]]
        /\ UNCHANGED <<clock, file, s3obj, DEFAULT_WL_DICT, config>>

\* go_to_waitlist: the waits on the page's elements raise TimeoutException
GoToWaitlist(p, found) ==
    LET L == poller[p]
    IN  /\ L.pc = "navigate"
        /\ poller' = [poller EXCEPT ![p] =
              IF found THEN [L EXCEPT !.pc = "extract"]
              ELSE [L EXCEPT !.pc = "failed", !.fault = "TimeoutException"]]
        /\ UNCHANGED <<clock, file, s3obj, DEFAULT_WL_DICT, config>>

\* get_latest_waitlist_posn, then the call of compare_waitlist_posns with
\* its result; el[0] raises IndexError when the page lacks the text
GetLatestWaitlistPosn(p, found, x) ==
    LET L == poller[p]
    IN  /\ L.pc = "extract"
        /\ poller' = IF found
                     THEN Enter(p, [L EXCEPT !.posn = x])
                     ELSE [poller EXCEPT ![p] =
                             [L EXCEPT !.pc = "failed", !.fault = "IndexError"]]
        /\ UNCHANGED <<clock, file, s3obj, DEFAULT_WL_DICT, config>>

(***************************************************************************)
(* The poll pipelines after the reconciler.                                *)
(***************************************************************************)
\* publishing whatever the pass returned
lambda_notifies_always(has_changed) == TRUE

\* "if has_changed:" of the two lambda handlers, around their send_email
lambda_notifies(has_changed) == has_changed

\* the entry point takes the value compare_waitlist_posns returned:
\* src/src/lambda_handler.py unpacks it into two names, and unpacking a bool
\* raises TypeError; the others bind it to has_changed
BindResult(p) ==
    LET L == poller[p]
    IN  /\ L.pc = "ret"
        /\ L.entry \in Entries
        /\ poller' = [poller EXCEPT ![p] =
              IF L.entry = "handler_lambda"
              THEN [L EXCEPT !.pc = "aborted", !.fault = "TypeError"]
              ELSE [L EXCEPT !.pc = "quit"]]
        /\ UNCHANGED <<clock, file, s3obj, DEFAULT_WL_DICT, config>>

\* driver.quit(), which may raise; the script returns after it
DriverQuit(p, ok) ==
    LET L == poller[p]
    IN  /\ L.pc = "quit"
        /\ poller' = [poller EXCEPT ![p] =
              IF ~ok THEN [L EXCEPT !.pc = "aborted", !.fault = "WebDriverException"]
              ELSE IF L.entry \notin LambdaEntries THEN [L EXCEPT !.pc = "done"]
              ELSE IF lambda_notifies(L.has_changed) THEN [L EXCEPT !.pc = "notify"]
              ELSE [L EXCEPT !.pc = "respond"]]
        /\ UNCHANGED <<clock, file, s3obj, DEFAULT_WL_DICT, config>>

\* the body text reads the clock, then send_email publishes to the topic;
\* sns_client.publish raises ClientError when the service refuses
SendEmail(p, ok) ==
    LET L == poller[p]
    IN  /\ L.pc = "notify"
        /\ \E t \in Ticks(clock) : clock' = t
        /\ poller' = [poller EXCEPT ![p] =
              IF ok THEN [L EXCEPT !.pc = "respond", !.notified = @ + 1]
              ELSE [L EXCEPT !.pc = "aborted", !.fault = "ClientError"]]
        /\ UNCHANGED <<file, s3obj, DEFAULT_WL_DICT, config>>

\* the handler returns its response, {"message": "completed"}
Respond(p) ==
    LET L == poller[p]
    IN  /\ L.pc = "respond"
        /\ poller' = [poller EXCEPT ![p] = [L EXCEPT !.pc = "done"]]
        /\ UNCHANGED <<clock, file, s3obj, DEFAULT_WL_DICT, config>>

(***************************************************************************)
(* One poller at a time: the single-poller assumption of the design.       *)
(***************************************************************************)
Step(p) ==
    \/ \E x \in PosnInputs : Call(p, x)
    \/ \E listing \in {"listed", "list_fails", "prefix_list_fails"} : Load(p, listing)
    \/ Compare(p)
    \/ Save(p)
    \/ Dump(p)
    \/ \E k \in 0..Len(WlKeys) : Kill(p, k)
    \/ \E e \in Entries : StartRun(p, e)
    \/ \E outcome \in {"True", "False", "TimeoutException"} : Login(p, outcome)
    \/ \E found \in BOOLEAN : GoToWaitlist(p, found)
    \/ \E found \in BOOLEAN, x \in PageTexts : GetLatestWaitlistPosn(p, found, x)
    \/ BindResult(p)
    \/ \E ok \in BOOLEAN : DriverQuit(p, ok)
    \/ \E ok \in BOOLEAN : SendEmail(p, ok)
    \/ Respond(p)

Next == Step("p1")

Spec == Init /\ [][Next]_vars

(***************************************************************************)
(* Several pollers against one backend, every one of them observing the    *)
(* same position: each step is a step of compare_waitlist_posns in one of  *)
(* them, and nothing orders the steps of different pollers.                *)
(***************************************************************************)
\* the position every poller observes
SamePosn == PyInt(9)

RaceStep(p) ==
    \/ Call(p, SamePosn)
    \/ Load(p, "listed")
    \/ Compare(p)
    \/ Save(p)
    \/ Dump(p)

NextRace == \E p \in Pollers : RaceStep(p)

\* exactly one backend is given, and it holds nothing or a well-formed record
RaceDocs == {StoredDoc(PyInt(5), T0, T0), StoredDoc(PyStr(<<"9">>), T0, T0)}

InitRace ==
    /\ Init
    /\ (config.file_path = "none") # (config.s3_bucket_object = "none")
    /\ file \in {AbsentFile} \cup {WholeFile(d) : d \in RaceDocs}
    /\ s3obj \in {AbsentObject} \cup {WholeObject(d) : d \in RaceDocs}

SpecRace == InitRace /\ [][NextRace]_vars

(***************************************************************************)
(* Vocabulary of the properties.                                           *)
(***************************************************************************)
\* the backend the arguments of poller p select
Backend(p) ==
    IF poller[p].file_path # "none" THEN "file"
    ELSE IF poller[p].s3_bucket_object = "ref" THEN "s3" ELSE "nowhere"

\* that backend as compare_waitlist_posns was called, and now
PreStore(p) ==
    IF Backend(p) = "file" THEN poller[p].pre_file
    ELSE [exists |-> poller[p].pre_s3.exists, complete |-> poller[p].pre_s3.exists,
          doc |-> poller[p].pre_s3.doc]

NowStore(p) ==
    IF Backend(p) = "file" THEN file
    ELSE [exists |-> s3obj.exists, complete |-> s3obj.exists, doc |-> s3obj.doc]

\* x is an int, or text Python reads as a decimal integer
ParsesAsInteger(x) ==
    \/ x.kind = "int"
    \/ x.kind = "str" /\ DigitsOk(Unsigned(Strip(x.chars)))

\* the integer x stands for
IntegerValue(x) ==
    IF x.kind = "int" THEN x.int
    ELSE SignOf(Strip(x.chars)) * DigitsValue(Unsigned(Strip(x.chars)), 0)

\* x is a timestamp in the fixed format: six digits of microseconds, UTC
FixedFormat(x) ==
    /\ x.kind = "stamp"
    /\ Len(x.stamp.frac) = FracWidth
    /\ x.stamp.zname = "UTC"
    /\ x.stamp.zoff = "+0000"

\* the store holds a whole document with a position that is an integer
HasPosition(st) ==
    /\ st.exists
    /\ st.complete
    /\ {st.doc[i].key : i \in 1..Len(st.doc)} = {K_DATETIME, K_UPDATED, K_POSITION}
    /\ Len(st.doc) = Len(WlKeys)
    /\ ParsesAsInteger(json_load(st.doc)[K_POSITION])

\* the store holds a well-formed record
WellFormed(st) ==
    /\ HasPosition(st)
    /\ FixedFormat(json_load(st.doc)[K_DATETIME])
    /\ FixedFormat(json_load(st.doc)[K_UPDATED])

\* the pass of poller p is over and the backend answered its requests
PassOver(p) ==
    /\ poller[p].pc \in {"ret", "exc"}
    /\ Backend(p) # "nowhere"
    /\ poller[p].fault # "ClientError"

\* the record in the backend of poller p
Stored(p) == json_load(NowStore(p).doc)

\* the record that was there as compare_waitlist_posns was called
Before(p) == json_load(PreStore(p).doc)

(***************************************************************************)
(* C1: when the stored record has integer position p1 and the observed     *)
(* position is an integer p2 # p1, compare_waitlist_posns returns True and *)
(* the record it wrote has position p2 and changed_at = checked_at = the   *)
(* pass's current time.                                                    *)
(***************************************************************************)
C1_ChangedPassWritesObserved ==
    \A p \in Pollers :
        LET L == poller[p]
        IN  (/\ PassOver(p)
             /\ HasPosition(PreStore(p))
             /\ ParsesAsInteger(L.posn)
             /\ IntegerValue(L.posn) # IntegerValue(Before(p)[K_POSITION]))
            => /\ L.pc = "ret"
               /\ L.has_changed
               /\ NowStore(p).complete
               /\ DOMAIN Stored(p) = {K_DATETIME, K_UPDATED, K_POSITION}
               /\ Stored(p)[K_POSITION] = L.posn
               /\ IntegerValue(Stored(p)[K_POSITION]) = IntegerValue(L.posn)
               /\ Stored(p)[K_DATETIME] = now_text(clock)
               /\ Stored(p)[K_UPDATED] = now_text(clock)
               /\ L.dt_now = now_text(clock)

C1_Witness ==
    \E p \in Pollers :
        /\ poller[p].pc = "ret"
        /\ Backend(p) = "s3"
        /\ HasPosition(PreStore(p))
        /\ Before(p)[K_POSITION] = PyInt(5)
        /\ poller[p].posn = PyInt(9)
        /\ poller[p].has_changed
        /\ Stored(p)[K_POSITION] = PyInt(9)
        /\ clock > 0

(***************************************************************************)
(* C2: when the stored record is well formed, {position p, changed_at T0,  *)
(* checked_at Tc}, and the observed position is p, compare_waitlist_posns  *)
(* returns False and writes position p, changed_at exactly T0 and          *)
(* checked_at = the pass's current time.                                   *)
(***************************************************************************)
C2_UnchangedPassKeepsChangedAt ==
    \A p \in Pollers :
        LET L == poller[p]
        IN  (/\ PassOver(p)
             /\ WellFormed(PreStore(p))
             /\ ParsesAsInteger(L.posn)
             /\ IntegerValue(L.posn) = IntegerValue(Before(p)[K_POSITION]))
            => /\ L.pc = "ret"
               /\ ~L.has_changed
               /\ NowStore(p).complete
               /\ Stored(p)[K_POSITION] = Before(p)[K_POSITION]
               /\ Stored(p)[K_DATETIME] = Before(p)[K_DATETIME]
               /\ Stored(p)[K_UPDATED] = now_text(clock)
               /\ L.dt_now = now_text(clock)

C2_Witness ==
    \E p \in Pollers :
        /\ poller[p].pc = "ret"
        /\ Backend(p) = "file"
        /\ WellFormed(PreStore(p))
        /\ Before(p)[K_POSITION] = PyInt(5)
        /\ poller[p].posn = PyStr(<<"5">>)
        /\ ~poller[p].has_changed
        /\ Before(p)[K_DATETIME] = T0
        /\ Stored(p)[K_DATETIME] = T0
        /\ Stored(p)[K_UPDATED] # T0

(***************************************************************************)
(* C3: over the passes of one poller that start from no record or from a   *)
(* well-formed record, changed_at differs between the record a pass loaded *)
(* (the stored one, or the default made for an absent file) and the record *)
(* it wrote only if the pass returned True; checked_at is the pass's       *)
(* current time after every pass; the record stays well formed; and a pass *)
(* observing the same position as the poller's previous pass returns False *)
(* and leaves position and changed_at as they were stored.                 *)
(***************************************************************************)
C3_ChangedAtMovesOnlyOnChange ==
    \A p \in Pollers :
        LET L == poller[p]
        IN  (/\ L.pc = "ret"
             /\ Backend(p) # "nowhere"
             /\ ~PreStore(p).exists \/ WellFormed(PreStore(p)))
            => /\ Stored(p)[K_DATETIME] # WlData(p)[K_DATETIME] => L.has_changed
               /\ Stored(p)[K_UPDATED] = now_text(clock)
               /\ L.dt_now = now_text(clock)
               /\ WellFormed(NowStore(p))
               /\ (L.last_ok.seen /\ L.last_ok.value = IntegerValue(L.posn))
                  => /\ ~L.has_changed
                     /\ PreStore(p).exists
                     /\ Stored(p)[K_POSITION] = Before(p)[K_POSITION]
                     /\ Stored(p)[K_DATETIME] = Before(p)[K_DATETIME]

C3_Witness ==
    \E p \in Pollers :
        /\ poller[p].pc = "ret"
        /\ Backend(p) = "file"
        /\ poller[p].last_ok = [seen |-> TRUE, value |-> 9]
        /\ IntegerValue(poller[p].posn) = 9
        /\ ~poller[p].has_changed
        /\ WellFormed(PreStore(p))
        /\ Before(p)[K_DATETIME] # Before(p)[K_UPDATED]
        /\ Stored(p)[K_DATETIME] = Before(p)[K_DATETIME]
        /\ Stored(p)[K_UPDATED] # Before(p)[K_UPDATED]

(***************************************************************************)
(* C4: with the file backend and no file, the pass works from a default    *)
(* record with position -1 and both timestamps equal to the time it was    *)
(* made; with an integer observed position p it returns True exactly when  *)
(* p # -1 and the record written has position p.                           *)
(***************************************************************************)
C4_AbsentFileDefaultsToMinusOne ==
    \A p \in Pollers :
        LET L == poller[p]
        IN  (Backend(p) = "file" /\ ~L.pre_file.exists)
            => /\ L.pc \in {"compare", "save", "dump", "ret", "exc", "killed"}
                  => /\ L.wl_ref = "default"
                     /\ WlData(p)[K_POSITION] = PyInt(-1)
                     /\ WlData(p)[K_DATETIME] = L.default_at
                     /\ WlData(p)[K_UPDATED] = L.default_at
                     /\ FixedFormat(L.default_at)
               /\ L.pc = "compare" => L.default_at = now_text(clock)
               /\ (L.pc \in {"ret", "exc"} /\ ParsesAsInteger(L.posn))
                  => /\ L.pc = "ret"
                     /\ L.has_changed = (IntegerValue(L.posn) # -1)
                     /\ NowStore(p).complete
                     /\ IntegerValue(Stored(p)[K_POSITION]) = IntegerValue(L.posn)

C4_Witness ==
    \E p \in Pollers :
        /\ poller[p].pc = "ret"
        /\ Backend(p) = "file"
        /\ ~poller[p].pre_file.exists
        /\ poller[p].posn = PyInt(5)
        /\ poller[p].has_changed
        /\ Stored(p)[K_POSITION] = PyInt(5)

(***************************************************************************)
(* C5: with the bucket backend and no object at the key, the pass works    *)
(* from the default record (position -1, both timestamps the current       *)
(* time) and completes by writing a record and returning.                  *)
(***************************************************************************)
C5_AbsentKeyDefaultsLikeFile ==
    \A p \in Pollers :
        LET L == poller[p]
        IN  (/\ Backend(p) = "s3"
             /\ ~L.pre_s3.exists
             /\ L.pc \in {"compare", "save", "ret", "exc"}
             /\ L.fault # "ClientError"
             /\ ParsesAsInteger(L.posn))
            => /\ L.wl_ref # "none"
               /\ WlData(p)[K_POSITION] = PyInt(-1)
               /\ WlData(p)[K_DATETIME] = WlData(p)[K_UPDATED]
               /\ L.pc # "exc"
               /\ L.pc = "ret" => L.writes = 1 /\ s3obj.exists

(***************************************************************************)
(* C6: when the observed position does not parse as an integer, the pass   *)
(* raises before any write: it never reaches the save, counts no write and *)
(* leaves both backends as they were; once a record with a position has    *)
(* been loaded, what it raises is the parse error of int(posn).            *)
(***************************************************************************)
C6_UnparseableObservedWritesNothing ==
    \A p \in Pollers :
        LET L == poller[p]
        IN  (L.pc \in InPass \cup {"ret", "exc", "killed"} /\ ~ParsesAsInteger(L.posn))
            => /\ L.pc \in {"load", "compare", "exc"}
               /\ L.writes = 0
               /\ file = L.pre_file
               /\ s3obj = L.pre_s3
               /\ (L.pc = "exc" /\ L.wl_ref # "none" /\ K_POSITION \in DOMAIN WlData(p))
                  => L.fault \in {"ValueError", "TypeError"}

C6_Witness ==
    \E p \in Pollers :
        /\ poller[p].pc = "exc"
        /\ poller[p].posn = PyStr(<<"a">>)
        /\ poller[p].fault = "ValueError"
        /\ Backend(p) = "file"
        /\ WellFormed(PreStore(p))
        /\ poller[p].reads = 1
        /\ file = poller[p].pre_file

(***************************************************************************)
(* C7 as stated: every invocation of compare_waitlist_posns, once over,    *)
(* has performed exactly one write.  It is stated for the invocations      *)
(* whose load returned a record, so that a violation does not rest on a    *)
(* failing load.                                                           *)
(***************************************************************************)
C7_EveryInvocationWritesOnce ==
    \A p \in Pollers :
        (poller[p].pc \in {"ret", "exc"} /\ poller[p].wl_ref # "none")
        => poller[p].writes = 1

(***************************************************************************)
(* C7 amended: an invocation that returns has performed exactly one write, *)
(* on the unchanged path as on the changed path; one that raises before it *)
(* reaches save_waitlist_posn has performed none; none performs more than  *)
(* one.                                                                    *)
(***************************************************************************)
C7_ReturnedInvocationWritesOnce ==
    \A p \in Pollers :
        /\ poller[p].pc = "ret" => poller[p].writes = 1
        /\ poller[p].pc = "exc" => poller[p].writes = 0
        /\ poller[p].pc \in {"load", "compare", "save"} => poller[p].writes = 0
        /\ poller[p].writes <= 1

C7_Witness ==
    \E p \in Pollers :
        /\ poller[p].pc = "ret"
        /\ ~poller[p].has_changed
        /\ poller[p].writes = 1
        /\ Backend(p) = "s3"
        /\ s3obj # poller[p].pre_s3

(***************************************************************************)
(* C8: writes to the file are all or nothing: whenever a pass is over or   *)
(* was interrupted, the file is the complete previous record or the        *)
(* complete new record, never empty or partly written.                     *)
(***************************************************************************)
C8_FileWritesAllOrNothing ==
    \A p \in Pollers :
        LET L == poller[p]
        IN  (Backend(p) = "file" /\ L.pc \in {"ret", "exc", "killed"})
            => \/ file = L.pre_file
               \/ L.writes = 1 /\ file = WholeFile(json_dump(L.wl_dict))

(***************************************************************************)
(* C9 as stated: when the stored record lacks one of the three keys or has *)
(* a position that is no integer, the pass raises a data-format fault,     *)
(* writes nothing and leaves the record as it was.                         *)
(***************************************************************************)
Malformed(st) ==
    /\ st.exists
    /\ st.complete
    /\ \/ {K_DATETIME, K_UPDATED, K_POSITION} \ {st.doc[i].key : i \in 1..Len(st.doc)} # {}
       \/ ~ParsesAsInteger(json_load(st.doc)[K_POSITION])

DataFormatFaults == {"KeyError", "ValueError", "TypeError"}

Usable(rec, posn) ==
    /\ K_POSITION \in DOMAIN rec
    /\ ParsesAsInteger(rec[K_POSITION])
    /\ \/ IntegerValue(posn) # IntegerValue(rec[K_POSITION])
       \/ /\ K_DATETIME \in DOMAIN rec
          /\ rec[K_DATETIME].kind = "stamp"
          /\ Len(rec[K_DATETIME].stamp.frac) \in 1..FracWidth
          /\ rec[K_DATETIME].stamp.zname \in {"UTC", "GMT"}
          /\ rec[K_DATETIME].stamp.zoff \in {"+0000", "+0100"}

C9_RepairWitness ==
    \E p \in Pollers :
        /\ poller[p].pc = "ret"
        /\ Backend(p) = "file"
        /\ K_UPDATED \notin DOMAIN Before(p)
        /\ ~poller[p].has_changed
        /\ DOMAIN Stored(p) = {K_DATETIME, K_UPDATED, K_POSITION}

(***************************************************************************)
(* C10: in a run of a poll pipeline, once authentication or the page       *)
(* navigation has failed, compare_waitlist_posns is not invoked and the    *)
(* stored record is neither read nor written.                              *)
(***************************************************************************)
C10_NoReconcileAfterUpstreamFailure ==
    \A p \in Pollers :
        LET L == poller[p]
        IN  (L.entry \in Entries /\ (L.logged_in = "False" \/ L.pc = "failed"))
            => /\ L.pc \notin InPass \cup {"ret", "exc", "killed"}
               /\ L.reads = 0
               /\ L.writes = 0

(***************************************************************************)
(* C11: for each of the two Lambda entry points, a run whose pass found    *)
(* the position changed publishes exactly one notification and then        *)
(* returns the completed response, and a run whose pass found it unchanged *)
(* publishes none.  Runs in which the browser or the notification service  *)
(* failed are left aside.                                                  *)
(***************************************************************************)
C11_ChangedRunNotifiesOnce ==
    \A p \in Pollers :
        LET L == poller[p]
        IN  (/\ L.entry \in LambdaEntries
             /\ L.pc \in {"done", "aborted"}
             /\ L.fault \notin {"WebDriverException", "ClientError"})
            => /\ L.has_changed => (L.pc = "done" /\ L.notified = 1)
               /\ ~L.has_changed => L.notified = 0

C13_OneClockReadingPerPass ==
    \A p \in Pollers :
        LET L == poller[p]
        IN  L.pc = "ret"
            => /\ Stored(p)[K_UPDATED] = L.dt_now
               /\ \/ Stored(p)[K_DATETIME] = L.dt_now
                  \/ L.wl_ref = "own" /\ ~L.has_changed

(***************************************************************************)
(* C13 amended: compare_waitlist_posns reads the clock once after the load *)
(* and checked_at is always that reading, as is changed_at on the changed  *)
(* path.  A pass that starts from an absent file reads the clock a second  *)
(* time, earlier, for the default record; on the unchanged path of such a  *)
(* pass changed_at is that earlier reading.                                *)
(***************************************************************************)
C13_OneReadingAfterLoad ==
    \A p \in Pollers :
        LET L == poller[p]
        IN  L.pc = "ret"
            => /\ L.dt_now = now_text(clock)
               /\ Stored(p)[K_UPDATED] = L.dt_now
               /\ L.has_changed => Stored(p)[K_DATETIME] = L.dt_now
               /\ (~L.has_changed /\ L.wl_ref = "default")
                  => /\ Stored(p)[K_DATETIME] = L.default_at
                     /\ L.default_at \in {now_text(t) : t \in 0..clock}
               /\ (~L.has_changed /\ L.wl_ref = "own")
                  => strptime(Stored(p)[K_DATETIME]).dt = strptime(Before(p)[K_DATETIME]).dt

C13_Witness ==
    \E p \in Pollers :
        /\ poller[p].pc = "ret"
        /\ poller[p].wl_ref = "default"
        /\ ~poller[p].has_changed
        /\ Stored(p)[K_DATETIME] = poller[p].default_at
        /\ Stored(p)[K_UPDATED] = poller[p].dt_now
        /\ poller[p].default_at # poller[p].dt_now

(***************************************************************************)
(* C14 as stated: whatever the two bucket listings did, the bucket load    *)
(* comes to the object get and has the outcome (the record returned, or    *)
(* the fault) it would have without the listings.                          *)
(***************************************************************************)
\* the bucket load with the two listing calls left out
WithoutListing(ref, o) ==
    IF ref = "empty" THEN Raise("ParamValidationError")
    ELSE IF ~o.exists THEN Raise("NoSuchKey")
    ELSE IF \E i \in 1..Len(o.doc) : HasApostrophe(o.doc[i].value)
         THEN Raise("JSONDecodeError")
         ELSE Ok(json_load(o.doc))

\* poller p has come out of the bucket load and not moved since
LoadOver(p) ==
    /\ "s3" \in poller[p].touched
    /\ poller[p].s3_bucket_object = "ref"
    /\ \/ poller[p].pc = "compare"
       \/ poller[p].pc = "exc" /\ poller[p].wl_ref = "none"

\* the outcome of the load of poller p is r
LoadOutcomeIs(p, r) ==
    /\ (poller[p].pc = "compare") = r.ok
    /\ r.ok => poller[p].wl_data = r.val
    /\ ~r.ok => poller[p].fault = r.err

C14_ListingHasNoEffect ==
    \A p \in Pollers :
        LoadOver(p)
        => /\ poller[p].reads = 1
           /\ LoadOutcomeIs(p, WithoutListing("ref", poller[p].pre_s3))

(***************************************************************************)
(* C15: nothing protects the read-modify-write of the record.  With every  *)
(* pass observing the same position, a pass that ran with no other pass    *)
(* inside compare_waitlist_posns returns True exactly when the position    *)
(* stored before it differs from the observed one, so of passes running    *)
(* one after another only the first returns True; two passes can both      *)
(* have returned True only if they overlapped (the witness is such a       *)
(* state).                                                                 *)
(***************************************************************************)
C15_OnlyOverlappingPassesBothChange ==
    /\ \A p \in Pollers :
          LET L == poller[p]
          IN  (L.pc = "ret" /\ ~L.overlap /\ Backend(p) # "nowhere")
              => /\ HasPosition(PreStore(p))
                    => L.has_changed = (IntegerValue(Before(p)[K_POSITION]) # IntegerValue(L.posn))
                 /\ ~PreStore(p).exists => L.has_changed
    /\ \A p, q \in Pollers :
          (/\ p # q
           /\ poller[p].pc = "ret"
           /\ poller[q].pc = "ret"
           /\ poller[p].has_changed
           /\ poller[q].has_changed)
          => poller[p].overlap /\ poller[q].overlap

C15_Witness ==
    /\ \A p \in Pollers :
          /\ poller[p].pc = "ret"
          /\ poller[p].has_changed
          /\ poller[p].overlap
          /\ poller[p].posn = SamePosn
          /\ Backend(p) = "s3"
          /\ Before(p)[K_POSITION] = PyInt(5)
    /\ poller["p1"].pre_s3 = poller["p2"].pre_s3
    /\ Stored("p1")[K_POSITION] = SamePosn

(***************************************************************************)
(* C16: after every pass of a single poller that returned, the integer     *)
(* value of the stored position is that of the observed position, and the  *)
(* pass returned True exactly when that value differs from the value       *)
(* observed by the poller's previous returning pass; with no previous      *)
(* pass, from the value of the record found in the backend, or from -1     *)
(* when the backend held none.                                             *)
(***************************************************************************)
C16_StoredFollowsObserved ==
    \A p \in Pollers :
        LET L == poller[p]
            observed == IntegerValue(L.posn)
        IN  (L.pc = "ret" /\ Backend(p) # "nowhere")
            => /\ ParsesAsInteger(L.posn)
               /\ ParsesAsInteger(Stored(p)[K_POSITION])
               /\ IntegerValue(Stored(p)[K_POSITION]) = observed
               /\ L.last_ok.seen
                  => /\ L.has_changed = (observed # L.last_ok.value)
                     /\ IntegerValue(Before(p)[K_POSITION]) = L.last_ok.value
               /\ (~L.last_ok.seen /\ ~PreStore(p).exists)
                  => L.has_changed = (observed # -1)
               /\ (~L.last_ok.seen /\ PreStore(p).exists)
                  => L.has_changed = (observed # IntegerValue(Before(p)[K_POSITION]))

C16_Witness ==
    \E p \in Pollers :
        /\ poller[p].pc = "ret"
        /\ Backend(p) = "file"
        /\ poller[p].last_ok = [seen |-> TRUE, value |-> 9]
        /\ Before(p)[K_POSITION] = PyStr(<<" ", "9">>)
        /\ poller[p].posn = PyInt(5)
        /\ poller[p].has_changed
        /\ Stored(p)[K_POSITION] = PyInt(5)

(***************************************************************************)
(* C17: within one pass the load and the save go to the same backend.      *)
(* With a file path given, the file is the backend of both and the bucket  *)
(* is neither read nor written, also when a bucket and key are given as    *)
(* well; the bucket is the backend of both only when the file path is      *)
(* None.                                                                   *)
(***************************************************************************)
C17_LoadAndSaveShareBackend ==
    \A p \in Pollers :
        LET L == poller[p]
        IN  L.pc \in InPass \cup Returned \cup {"exc", "killed"}
            => /\ L.file_path # "none"
                  => /\ L.touched \subseteq {"file"}
                     /\ s3obj = L.pre_s3
               /\ L.file_path = "none"
                  => /\ L.touched \subseteq {"s3"}
                     /\ file = L.pre_file
               /\ L.pc \in Returned
                  => /\ L.reads = 1
                     /\ L.writes = 1
                     /\ L.touched = IF L.file_path # "none" THEN {"file"} ELSE {"s3"}

C17_Witness ==
    \E p \in Pollers :
        /\ poller[p].pc = "ret"
        /\ poller[p].file_path = "fp"
        /\ poller[p].s3_bucket_object = "ref"
        /\ poller[p].touched = {"file"}
        /\ poller[p].reads = 1
        /\ poller[p].writes = 1
        /\ file # poller[p].pre_file
        /\ s3obj = poller[p].pre_s3

(***************************************************************************)
(* C18: in a Lambda run the record is saved before the notification is     *)
(* published and stays saved when the run raises afterwards.  When a run   *)
(* saved a change and then raised without publishing, the next run whose   *)
(* pass returns with the same observed position finds no change and        *)
(* publishes nothing.                                                      *)
(***************************************************************************)
C18_SavedChangeIsNotNotifiedLater ==
    \A p \in Pollers :
        LET L == poller[p]
        IN  (L.entry \in LambdaEntries /\ L.pc \in Returned)
            => /\ L.writes = 1
               /\ s3obj = WholeObject(json_dump(L.wl_dict))
               /\ L.pc \in {"ret", "quit", "notify"} => L.notified = 0
               /\ L.notified = 1 => L.has_changed
               /\ (L.lost.pending /\ IntegerValue(L.posn) = L.lost.value)
                  => /\ ~L.has_changed
                     /\ L.pc # "notify"
                     /\ L.notified = 0

C18_Witness ==
    \E p \in Pollers :
        /\ poller[p].entry = "main_lambda"
        /\ poller[p].pc = "done"
        /\ poller[p].lost = [pending |-> TRUE, value |-> 9]
        /\ IntegerValue(poller[p].posn) = 9
        /\ ~poller[p].has_changed
        /\ poller[p].notified = 0
        /\ Stored(p)[K_POSITION] = PyStr(<<" ", "9">>)

(***************************************************************************)
(* C19: the shared default dictionary is changed in place, yet every       *)
(* default record made in one process, after any earlier passes, has       *)
(* position -1 and both timestamps equal to the time it was made: the      *)
(* shared dictionary never holds another position or another key, and a    *)
(* pass working from the default sees the timestamps of its own synthesis, *)
(* not those an earlier pass left behind.                                  *)
(***************************************************************************)
C19_DefaultNeverLeaks ==
    /\ DOMAIN DEFAULT_WL_DICT = {K_DATETIME, K_UPDATED, K_POSITION}
    /\ DEFAULT_WL_DICT[K_POSITION] = PyInt(-1)
    /\ DEFAULT_WL_DICT[K_DATETIME] = DEFAULT_WL_DICT[K_UPDATED]
    /\ \A p \in Pollers :
          LET L == poller[p]
          IN  L.wl_ref = "default"
              => /\ WlData(p) = save_waitlist_posn(PyInt(-1), L.default_at, L.default_at)
                 /\ FixedFormat(L.default_at)
                 /\ L.pc = "compare" => L.default_at = now_text(clock)
                 /\ (L.pc = "ret" /\ ~L.has_changed)
                    => /\ IntegerValue(L.posn) = -1
                       /\ Stored(p)[K_DATETIME] = L.default_at

\* the file is still absent after two clock readings, which only earlier
\* syntheses of the default can have made
C19_Witness ==
    \E p \in Pollers :
        /\ poller[p].pc = "compare"
        /\ poller[p].wl_ref = "default"
        /\ poller[p].posn = PyInt(5)
        /\ clock = 2
        /\ poller[p].default_at = now_text(2)
        /\ DEFAULT_WL_DICT[K_DATETIME] = now_text(2)
        /\ DEFAULT_WL_DICT[K_POSITION] = PyInt(-1)

====
